---- MODULE Spec2Model ----
(***************************************************************************)
(* Model of the semantic-search core of elysium-mcp:                       *)
(*   src/src/search/embedding.rs  (EmbeddingModel, cosine_similarity)      *)
(*   src/src/search/vectordb.rs   (VectorDB over three SQLite tables)      *)
(*   src/src/search/engine.rs     (SearchEngine, index_note, index_all)    *)
(*                                                                         *)
(* Conventions:                                                            *)
(*   - Option<T> is a sequence: <<>> is None, <<x>> is Some(x).            *)
(*   - a text is a sequence of Unicode code points.                        *)
(*   - a float is a fixed-point integer, 1.0 being 100.                    *)
(*   - a table is a function whose DOMAIN is the set of primary keys.      *)
(***************************************************************************)
EXTENDS Integers, Sequences, FiniteSets, TLC

(* ------------------------------ bounds -------------------------------- *)

\* number of moduli used by the model (the program uses 192 of them)
NumModuli == 2

\* largest `limit` handed to a search
MaxLimit == 2

\* how far the squared norm of a normalised vector may lie from 1.0 (10000
\* at the fixed-point resolution), for the rounding of the resolution
NormTolerance == 300

\* most statements one call may see fail for environmental reasons
\* (SQLITE_FULL, SQLITE_IOERR, SQLITE_BUSY)
MaxIoFailures == 1

(* ------------------------------ the state ----------------------------- *)

\* the last operation called, its arguments and what it returned
VARIABLE last

(* --------------------------- small helpers ---------------------------- *)

None == <<>>

Some(x) == <<x>>

Put(f, k, v) == [x \in (DOMAIN f) \cup {k} |-> IF x = k THEN v ELSE f[x]]

Del(f, k) == [x \in (DOMAIN f) \ {k} |-> f[x]]

Abs(x) == IF x < 0 THEN -x ELSE x

\* division of floats, rounded toward zero at the fixed-point resolution
FDiv(a, b) == IF a >= 0 THEN a \div b ELSE -((-a) \div b)

RECURSIVE SumSeq(_)
SumSeq(s) == IF s = <<>> THEN 0 ELSE Head(s) + SumSeq(Tail(s))

RECURSIVE SqrtBetween(_, _, _)
SqrtBetween(n, lo, hi) ==
    IF hi - lo <= 1 THEN lo
    ELSE LET mid == (lo + hi) \div 2
         IN IF mid * mid <= n THEN SqrtBetween(n, mid, hi) ELSE SqrtBetween(n, lo, mid)

\* f32/f64 sqrt at the fixed-point resolution: the largest r with r * r <= n
Sqrt(n) == SqrtBetween(n, 0, 32768)

\* a vector built component by component, held as a tuple
Vec(f) == f \o <<>>

(* ---------------------------- embedding.rs ---------------------------- *)

MAX_TOKEN_LENGTH == 64

\* the first entries of the static table of primes
COPRIME_MODULI == <<2, 3, 5, 7>>

EMBEDDING_DIM == 2 * NumModuli

\* char::is_whitespace on the code points the model uses (ASCII range)
IsWhitespace(c) == c \in (9..13) \cup {32}

\* char::is_ascii_punctuation
IsAsciiPunctuation(c) == c \in (33..47) \cup (58..64) \cup (91..96) \cup (123..126)

\* char::to_lowercase on the ASCII range
ToLower(c) == IF c \in 65..90 THEN c + 32 ELSE c

LowerText(t) == Vec([i \in 1..Len(t) |-> ToLower(t[i])])

IsTokenSep(c) == IsWhitespace(c) \/ IsAsciiPunctuation(c)

\* str::split on the separator predicate: the pieces between separators,
\* empty ones kept
RECURSIVE SplitOn(_, _)
SplitOn(t, cur) ==
    IF t = <<>> THEN <<cur>>
    ELSE IF IsTokenSep(Head(t)) THEN <<cur>> \o SplitOn(Tail(t), <<>>)
    ELSE SplitOn(Tail(t), Append(cur, Head(t)))

\* a split whose empty pieces are kept: the variant of tokenize that
\* C14_LengthAndZero must tell apart
tokenize_keepEmpty(text) ==
    LET pieces == SplitOn(text, <<>>)
    IN Vec([i \in 1..Len(pieces) |-> LowerText(pieces[i])])

tokenize(text) ==
    LET pieces == SplitOn(text, <<>>)
        kept == SelectSeq(pieces, LAMBDA s : s # <<>>)
    IN Vec([i \in 1..Len(kept) |-> LowerText(kept[i])])

\* A u64 is four 16-bit limbs, most significant first.
ZeroU64 == <<0, 0, 0, 0>>

\* n.saturating_mul(65536).saturating_add(c): u64::MAX once the value no
\* longer fits; the variant of ShiftAdd that C24_LastFourDecide must tell apart
ShiftAdd_saturating(n, c) ==
    LET lo == c % 65536
        hi == c \div 65536
        s1 == n[4] + hi
        s2 == n[3] + (s1 \div 65536)
        s3 == n[2] + (s2 \div 65536)
    IN IF n[1] # 0 \/ s3 > 65535 THEN <<65535, 65535, 65535, 65535>>
       ELSE <<s3, s2 % 65536, s1 % 65536, lo>>

\* n.wrapping_mul(65536).wrapping_add(c) on the limbs
ShiftAdd(n, c) ==
    LET lo == c % 65536
        hi == c \div 65536
        s1 == n[4] + hi
        s2 == n[3] + (s1 \div 65536)
        s3 == n[2] + (s2 \div 65536)
    IN <<s3 % 65536, s2 % 65536, s1 % 65536, lo>>

\* the loop `for c in chars` from the i-th code point on (the next index and
\* the next accumulator are bound as members of singleton sets, so that each
\* is computed once)
RECURSIVE FoldFrom(_, _, _)
FoldFrom(chars, i, n) ==
    IF i > Len(chars) THEN n
    ELSE CHOOSE out \in {FoldFrom(chars, j, m) :
                            j \in {i + 1}, m \in {ShiftAdd(n, chars[i])}} : TRUE

FoldChars(chars, n) == FoldFrom(chars, 1, n)

\* a fold over every code point of the token, with no `take`: the variant of
\* token_to_integer that C21_WrappingFold must tell apart
token_to_integer_untruncated(token) == FoldChars(token, ZeroU64)

token_to_integer(token) ==
    LET chars == SubSeq(token, 1, IF Len(token) < MAX_TOKEN_LENGTH
                                  THEN Len(token) ELSE MAX_TOKEN_LENGTH)
    IN FoldChars(chars, ZeroU64)

\* n % m for a u64 held in limbs
ModU64(n, m) ==
    LET a1 == n[1] % m
        a2 == (a1 * 65536 + n[2]) % m
        a3 == (a2 * 65536 + n[3]) % m
    IN (a3 * 65536 + n[4]) % m

\* (2.0 * PI * r / m).sin(), tabulated for the moduli of the model
SinOf(r, m) ==
    CASE m = 2 -> <<0, 0>>[r + 1]
      [] m = 3 -> <<0, 87, -87>>[r + 1]
      [] m = 5 -> <<0, 95, 59, -59, -95>>[r + 1]
      [] m = 7 -> <<0, 78, 97, 43, -43, -97, -78>>[r + 1]

\* (2.0 * PI * r / m).cos()
CosOf(r, m) ==
    CASE m = 2 -> <<100, -100>>[r + 1]
      [] m = 3 -> <<100, -50, -50>>[r + 1]
      [] m = 5 -> <<100, 31, -81, -81, 31>>[r + 1]
      [] m = 7 -> <<100, 62, -22, -90, -90, -22, 62>>[r + 1]

\* the first NUM_MODULI entries of the table
ModelModuli == SubSeq(COPRIME_MODULI, 1, NumModuli)

\* EmbeddingModel::new: an instance holds its moduli and nothing else
NewModel == [moduli |-> ModelModuli]

\* a sine and a cosine pushed for each modulus of the instance, in order
embed_token(self, token) ==
    LET n == token_to_integer(token)
    IN Vec([i \in 1..(2 * Len(self.moduli)) |->
              LET m == self.moduli[(i + 1) \div 2]
                  r == ModU64(n, m)
              IN IF i % 2 = 1 THEN SinOf(r, m) ELSE CosOf(r, m)])

ZeroVec == Vec([i \in 1..EMBEDDING_DIM |-> 0])

\* a sum that starts from the vector the call before left behind: the
\* variant of embed that C13_Deterministic must tell apart
embed_carrying(self, text) ==
    LET tokens == tokenize(text)
        count == Len(tokens)
        left == IF "ret" \in DOMAIN last THEN last.ret ELSE ZeroVec
        embs == Vec([t \in 1..count |-> embed_token(self, tokens[t])])
        sum == Vec([i \in 1..EMBEDDING_DIM |->
                      left[i] + SumSeq([t \in 1..count |-> embs[t][i]])])
        mean == Vec([i \in 1..EMBEDDING_DIM |-> FDiv(sum[i], count)])
        norm == Sqrt(SumSeq([i \in 1..EMBEDDING_DIM |-> mean[i] * mean[i]]))
    IN IF tokens = <<>> THEN ZeroVec
       ELSE IF norm > 0 THEN Vec([i \in 1..EMBEDDING_DIM |-> FDiv(mean[i] * 100, norm)])
       ELSE mean

\* the mean returned as it is: the variant of embed that C15_UnitNorm must
\* tell apart
embed_unnormalised(self, text) ==
    LET tokens == tokenize(text)
        count == Len(tokens)
        embs == Vec([t \in 1..count |-> embed_token(self, tokens[t])])
        sum == Vec([i \in 1..EMBEDDING_DIM |-> SumSeq([t \in 1..count |-> embs[t][i]])])
    IN IF tokens = <<>> THEN ZeroVec
       ELSE Vec([i \in 1..EMBEDDING_DIM |-> FDiv(sum[i], count)])

embed(self, text) ==
    LET tokens == tokenize(text)
        count == Len(tokens)
        embs == Vec([t \in 1..count |-> embed_token(self, tokens[t])])
        sum == Vec([i \in 1..EMBEDDING_DIM |-> SumSeq([t \in 1..count |-> embs[t][i]])])
        mean == Vec([i \in 1..EMBEDDING_DIM |-> FDiv(sum[i], count)])
        norm == Sqrt(SumSeq([i \in 1..EMBEDDING_DIM |-> mean[i] * mean[i]]))
    IN IF tokens = <<>> THEN ZeroVec
       ELSE IF norm > 0 THEN Vec([i \in 1..EMBEDDING_DIM |-> FDiv(mean[i] * 100, norm)])
       ELSE mean

\* a zip of the two slices with no test of their lengths: the variant of
\* cosine_similarity that C19_CosineZero must tell apart
cosine_similarity_zipped(a, b) ==
    LET n == IF Len(a) < Len(b) THEN Len(a) ELSE Len(b)
        dot == SumSeq([i \in 1..n |-> a[i] * b[i]])
        norm_a == Sqrt(SumSeq([i \in 1..Len(a) |-> a[i] * a[i]]))
        norm_b == Sqrt(SumSeq([i \in 1..Len(b) |-> b[i] * b[i]]))
    IN IF norm_a > 0 /\ norm_b > 0 THEN FDiv(dot * 100, norm_a * norm_b)
       ELSE 0

cosine_similarity(a, b) ==
    IF Len(a) # Len(b) THEN 0
    ELSE LET dot == SumSeq([i \in 1..Len(a) |-> a[i] * b[i]])
             norm_a == Sqrt(SumSeq([i \in 1..Len(a) |-> a[i] * a[i]]))
             norm_b == Sqrt(SumSeq([i \in 1..Len(b) |-> b[i] * b[i]]))
         IN IF norm_a > 0 /\ norm_b > 0 THEN FDiv(dot * 100, norm_a * norm_b)
            ELSE 0

(* ----------------------------- vectordb.rs ---------------------------- *)

\* f32::to_le_bytes: the four bytes of the value's 32-bit pattern, least
\* significant first (the pattern of a fixed-point value is its two's
\* complement)
F32ToLeBytes(v) ==
    LET u == IF v >= 0 THEN v ELSE -v - 1
        b == <<u % 256, (u \div 256) % 256, (u \div 65536) % 256,
               (u \div 16777216) % 256>>
    IN IF v >= 0 THEN b ELSE Vec([i \in 1..4 |-> 255 - b[i]])

\* the four bytes read most significant first: the variant of
\* F32FromLeBytes that C16_BlobRoundTrip must tell apart
F32FromLeBytes_reversed(c) ==
    IF c[1] < 128
    THEN c[4] + 256 * c[3] + 65536 * c[2] + 16777216 * c[1]
    ELSE -((255 - c[4]) + 256 * (255 - c[3]) + 65536 * (255 - c[2])
           + 16777216 * (255 - c[1])) - 1

\* f32::from_le_bytes
F32FromLeBytes(c) ==
    IF c[4] < 128
    THEN c[1] + 256 * c[2] + 65536 * c[3] + 16777216 * c[4]
    ELSE -((255 - c[1]) + 256 * (255 - c[2]) + 65536 * (255 - c[3])
           + 16777216 * (255 - c[4])) - 1

RECURSIVE embedding_to_blob(_)
embedding_to_blob(embedding) ==
    IF embedding = <<>> THEN <<>>
    ELSE F32ToLeBytes(Head(embedding)) \o embedding_to_blob(Tail(embedding))

\* chunks(4) with the last group filled up with zero bytes: the variant of
\* blob_to_embedding that C23_PartialGroupDropped must tell apart
blob_to_embedding_padded(blob) ==
    LET padded == blob \o SubSeq(<<0, 0, 0>>, 1, (4 - (Len(blob) % 4)) % 4)
    IN Vec([i \in 1..(Len(padded) \div 4) |->
              F32FromLeBytes(SubSeq(padded, 4 * i - 3, 4 * i))])

\* chunks_exact(4): a trailing group of fewer than four bytes is dropped
blob_to_embedding(blob) ==
    Vec([i \in 1..(Len(blob) \div 4) |-> F32FromLeBytes(SubSeq(blob, 4 * i - 3, 4 * i))])

\* serde_json::to_string(&Vec<String>): the JSON text as a sequence of lexemes
RECURSIVE JsonItems(_)
JsonItems(tags) ==
    IF tags = <<>> THEN <<>>
    ELSE IF Len(tags) = 1 THEN <<Head(tags)>>
    ELSE <<Head(tags), ",">> \o JsonItems(Tail(tags))

TagsToJson(tags) == <<"[">> \o JsonItems(tags) \o <<"]">>

\* serde_json::from_str(..).unwrap_or_default(): the strings of a well-formed
\* array, the empty list for anything else
TagsFromJson(json) ==
    LET n == Len(json)
        inner == SubSeq(json, 2, n - 1)
        wellFormed ==
            /\ n >= 2 /\ json[1] = "[" /\ json[n] = "]"
            /\ (Len(inner) = 0 \/ Len(inner) % 2 = 1)
            /\ \A i \in 1..Len(inner) :
                  IF i % 2 = 0 THEN inner[i] = "," ELSE inner[i] \notin {",", "[", "]"}
    IN IF wellFormed THEN Vec([i \in 1..((Len(inner) + 1) \div 2) |-> inner[2 * i - 1]])
       ELSE <<>>

\* init_schema: the three tables, empty
EmptyDb == [notes |-> << >>, embeddings |-> << >>, index_meta |-> << >>]

\* a notes table whose path column is `TEXT NOT NULL` only: the variant of
\* PathTaken that C27_PathsUnique must tell apart
PathTaken_unconstrained(db, id, path) == FALSE

\* the notes table's constraint `path TEXT NOT NULL UNIQUE`
PathTaken(db, id, path) ==
    \E other \in DOMAIN db.notes : other # id /\ db.notes[other].path = path

\* a schema whose embeddings rows are not tied to their notes row: the
\* variant of CascadeDelete that C4_DeleteCascades must tell apart
CascadeDelete_unenforced(embeddings, id) == embeddings

\* the embeddings table's `FOREIGN KEY (note_id) REFERENCES notes(id) ON DELETE
\* CASCADE`: deleting a notes row deletes the embedding row that refers to it
CascadeDelete(embeddings, id) == Del(embeddings, id)

\* `INSERT OR IGNORE` in both statements in place of the ON CONFLICT updates:
\* the variant of upsert_note that C3_UpsertReplaces must tell apart
upsert_note_ignore(db, note, embedding, now, first, fails) ==
    LET row == [path |-> note.path, title |-> note.title, gist |-> note.gist,
                note_type |-> note.note_type, status |-> note.status,
                area |-> note.area, tags |-> TagsToJson(note.tags),
                mtime |-> note.mtime, indexed_at |-> now]
        db1 == IF note.id \in DOMAIN db.notes THEN db
               ELSE [db EXCEPT !.notes = Put(db.notes, note.id, row)]
        db2 == IF note.id \in DOMAIN db1.embeddings THEN db1
               ELSE [db1 EXCEPT !.embeddings =
                        Put(db1.embeddings, note.id, embedding_to_blob(embedding))]
    IN IF first \in fails \/ PathTaken(db, note.id, note.path)
       THEN [db |-> db, ok |-> FALSE, stmts |-> 1]
       ELSE IF (first + 1) \in fails
       THEN [db |-> db1, ok |-> FALSE, stmts |-> 2]
       ELSE [db |-> db2, ok |-> TRUE, stmts |-> 2]

\* The statements of one call are numbered in execution order from `first`;
\* `fails` is the set of numbers of the statements the environment fails.
\* upsert_note runs two statements, each its own implicit transaction.
upsert_note(db, note, embedding, now, first, fails) ==
    LET row == [path |-> note.path, title |-> note.title, gist |-> note.gist,
                note_type |-> note.note_type, status |-> note.status,
                area |-> note.area, tags |-> TagsToJson(note.tags),
                mtime |-> note.mtime, indexed_at |-> now]
        db1 == [db EXCEPT !.notes = Put(db.notes, note.id, row)]
        db2 == [db1 EXCEPT !.embeddings =
                   Put(db1.embeddings, note.id, embedding_to_blob(embedding))]
    IN IF first \in fails \/ PathTaken(db, note.id, note.path)
       THEN [db |-> db, ok |-> FALSE, stmts |-> 1]
       ELSE IF (first + 1) \in fails \/ note.id \notin DOMAIN db1.notes
       THEN [db |-> db1, ok |-> FALSE, stmts |-> 2]
       ELSE [db |-> db2, ok |-> TRUE, stmts |-> 2]

\* `DELETE FROM notes` with no WHERE clause: the variant of delete_note that
\* C28_OnlyOwnEntry must tell apart
delete_note_everything(db, id, first, fails) ==
    IF first \in fails THEN [db |-> db, ok |-> FALSE]
    ELSE [db |-> [db EXCEPT !.notes = << >>, !.embeddings = << >>], ok |-> TRUE]

delete_note(db, id, first, fails) ==
    IF first \in fails THEN [db |-> db, ok |-> FALSE]
    ELSE [db |-> [db EXCEPT !.notes = Del(db.notes, id),
                            !.embeddings = CascadeDelete(db.embeddings, id)],
          ok |-> TRUE]

\* a row of the notes table read back as a NoteRecord
RecordOf(db, id) ==
    LET r == db.notes[id]
    IN [id |-> id, path |-> r.path, title |-> r.title, gist |-> r.gist,
        note_type |-> r.note_type, status |-> r.status, area |-> r.area,
        tags |-> TagsFromJson(r.tags), mtime |-> r.mtime]

get_note(db, id) == IF id \in DOMAIN db.notes THEN Some(RecordOf(db, id)) ELSE None

\* the rows of `notes n JOIN embeddings e ON n.id = e.note_id`
Joined(db) == (DOMAIN db.notes) \cap (DOMAIN db.embeddings)

\* the orders in which a scan may deliver the joined rows (no ORDER BY)
RECURSIVE Orders(_)
Orders(S) ==
    IF S = {} THEN {<<>>}
    ELSE UNION {{<<x>> \o o : o \in Orders(S \ {x})} : x \in S}

\* slice::sort_by(|a, b| b.1.partial_cmp(&a.1)): stable, descending by score
RECURSIVE InsertDesc(_, _)
InsertDesc(sorted, e) ==
    IF sorted = <<>> THEN <<e>>
    ELSE IF Head(sorted).score >= e.score THEN <<Head(sorted)>> \o InsertDesc(Tail(sorted), e)
    ELSE <<e>> \o sorted

\* the rows left in scan order: the variant of SortDesc that
\* C5_SearchRanked must tell apart
SortDesc_scanOrder(s) == s

RECURSIVE SortDesc(_)
SortDesc(s) ==
    IF s = <<>> THEN <<>>
    ELSE InsertDesc(SortDesc(SubSeq(s, 1, Len(s) - 1)), s[Len(s)])

\* a cut that keeps the last `limit` elements: the variant of Truncate that
\* C22_ExhaustiveTopK must tell apart
Truncate_tail(s, limit) ==
    SubSeq(s, (IF Len(s) < limit THEN 0 ELSE Len(s) - limit) + 1, Len(s))

Truncate(s, limit) == SubSeq(s, 1, IF Len(s) < limit THEN Len(s) ELSE limit)

\* a scan that passes over the rows whose vector is not of the query's
\* length: the variant of search that C29_MismatchScoresZero must tell apart
search_skipping(db, query_embedding, limit, scan) ==
    LET kept == SelectSeq(scan, LAMBDA id :
                    Len(blob_to_embedding(db.embeddings[id])) = Len(query_embedding))
        results == Vec([i \in 1..Len(kept) |->
                          [note |-> RecordOf(db, kept[i]),
                           score |-> cosine_similarity(query_embedding,
                                        blob_to_embedding(db.embeddings[kept[i]]))]])
    IN Truncate(SortDesc(results), limit)

\* VectorDB::search, the rows delivered in the order `scan`
search(db, query_embedding, limit, scan) ==
    LET results == Vec([i \in 1..Len(scan) |->
                          [note |-> RecordOf(db, scan[i]),
                           score |-> cosine_similarity(query_embedding,
                                        blob_to_embedding(db.embeddings[scan[i]]))]])
    IN Truncate(SortDesc(results), limit)

RECURSIVE MaxOf(_)
MaxOf(S) == LET x == CHOOSE y \in S : TRUE
            IN IF S = {x} THEN x
               ELSE LET m == MaxOf(S \ {x}) IN IF x > m THEN x ELSE m

get_stats(db) ==
    [note_count |-> Cardinality(DOMAIN db.notes),
     embedding_count |-> Cardinality(DOMAIN db.embeddings),
     last_indexed |-> IF DOMAIN db.notes = {} THEN None
                      ELSE Some(MaxOf({db.notes[i].indexed_at : i \in DOMAIN db.notes}))]

get_all_mtimes(db) == {<<i, db.notes[i].mtime>> : i \in DOMAIN db.notes}

\* `INSERT OR IGNORE` in place of `INSERT OR REPLACE`: the variant of
\* set_meta that C17_MetaLastWriteWins must tell apart
set_meta_ignore(db, key, value, first, fails) ==
    IF first \in fails THEN [db |-> db, ok |-> FALSE]
    ELSE IF key \in DOMAIN db.index_meta THEN [db |-> db, ok |-> TRUE]
    ELSE [db |-> [db EXCEPT !.index_meta = Put(db.index_meta, key, value)], ok |-> TRUE]

set_meta(db, key, value, first, fails) ==
    IF first \in fails THEN [db |-> db, ok |-> FALSE]
    ELSE [db |-> [db EXCEPT !.index_meta = Put(db.index_meta, key, value)], ok |-> TRUE]

get_meta(db, key) == IF key \in DOMAIN db.index_meta THEN Some(db.index_meta[key]) ELSE None

(* ------------------------------ engine.rs ----------------------------- *)

\* the texts the model draws: "GPU", "a cook" and the empty string
TextA == <<71, 80, 85>>

TextB == <<97, 32, 99, 111, 111, 107>>

EmbedTextA == embed(NewModel, TextA)

EmbedTextB == embed(NewModel, TextB)

\* model.embed(text): embed, computed once for the texts the model draws
model_embed(self, text) ==
    CASE self = NewModel /\ text = TextA -> EmbedTextA
      [] self = NewModel /\ text = TextB -> EmbedTextB
      [] OTHER -> embed(self, text)

\* EmbeddingModel::load: the path is ignored and the result is always Ok
load == [ok |-> TRUE, model |-> NewModel]

\* SearchEngine::new / new_in_memory; `loads` counts the calls of load
NewEngine == [model |-> None, db |-> EmptyDb, loads |-> 0]

\* a load on every call, memoized or not: the variant of ensure_model that
\* C9_LazyModel must tell apart
ensure_model_reload(eng) ==
    [eng |-> [eng EXCEPT !.model = Some(load.model), !.loads = @ + 1], ok |-> TRUE]

ensure_model(eng) ==
    IF eng.model = None
    THEN IF load.ok
         THEN [eng |-> [eng EXCEPT !.model = Some(load.model), !.loads = @ + 1],
               ok |-> TRUE]
         ELSE [eng |-> [eng EXCEPT !.loads = @ + 1], ok |-> FALSE]
    ELSE [eng |-> eng, ok |-> TRUE]

\* Note::gist and the other accessors: through the optional frontmatter
NoteGist(note) == IF note.frontmatter = None THEN None ELSE note.frontmatter[1].gist

NoteField(note, f) == IF note.frontmatter = None THEN None ELSE note.frontmatter[1][f]

NoteTags(note) == IF note.frontmatter = None THEN <<>> ELSE note.frontmatter[1].tags

\* a guard that takes any gist, empty or not: the variant of HasGist that
\* C12_IndexNote must tell apart
HasGist_anySome(note) == NoteGist(note) # None

\* the guard `Some(g) if !g.is_empty()`
HasGist(note) == NoteGist(note) # None /\ NoteGist(note)[1] # <<>>

\* an index_note that deletes the entry of a note it skips: the variant of
\* index_note that C26_IndexingKeepsEntries must tell apart
index_note_pruning(eng, note, now, first, fails) ==
    IF ~HasGist(note)
    THEN [eng |-> [eng EXCEPT !.db = delete_note(eng.db, note.name, first, {}).db],
          res |-> "skipped", stmts |-> 1]
    ELSE LET m == ensure_model(eng)
             gist == NoteGist(note)[1]
             embedding == model_embed(m.eng.model[1], gist)
             record == [id |-> note.name, path |-> note.path, title |-> note.name,
                        gist |-> Some(gist),
                        note_type |-> NoteField(note, "note_type"),
                        status |-> NoteField(note, "status"),
                        area |-> NoteField(note, "area"),
                        tags |-> NoteTags(note), mtime |-> note.modified]
         IN CHOOSE out \in
               {[eng |-> [m.eng EXCEPT !.db = up.db],
                 res |-> IF up.ok THEN "indexed" ELSE "failed",
                 stmts |-> up.stmts] :
                   up \in {upsert_note(m.eng.db, record, embedding, now,
                                       first, fails)}} :
               TRUE

\* SearchEngine::index_note; res is "indexed" (Ok(true)), "skipped"
\* (Ok(false)) or "failed" (Err)
index_note(eng, note, now, first, fails) ==
    IF ~HasGist(note) THEN [eng |-> eng, res |-> "skipped", stmts |-> 0]
    ELSE LET m == ensure_model(eng)
             gist == NoteGist(note)[1]
             embedding == model_embed(m.eng.model[1], gist)
             record == [id |-> note.name, path |-> note.path, title |-> note.name,
                        gist |-> Some(gist),
                        note_type |-> NoteField(note, "note_type"),
                        status |-> NoteField(note, "status"),
                        area |-> NoteField(note, "area"),
                        tags |-> NoteTags(note), mtime |-> note.modified]
         IN IF ~m.ok THEN [eng |-> m.eng, res |-> "failed", stmts |-> 0]
            ELSE CHOOSE out \in
                    {[eng |-> [m.eng EXCEPT !.db = up.db],
                      res |-> IF up.ok THEN "indexed" ELSE "failed",
                      stmts |-> up.stmts] :
                        up \in {upsert_note(m.eng.db, record, embedding, now,
                                            first, fails)}} :
                    TRUE

\* usize::to_string
RECURSIVE ToDecimal(_)
ToDecimal(n) == IF n < 10 THEN <<48 + n>> ELSE Append(ToDecimal(n \div 10), 48 + (n % 10))

\* a loop that stops at the first failed note, as `self.index_note(&note)?`
\* would: the variant of IndexLoop that C7_FailureIsolated must tell apart
RECURSIVE IndexLoop_stopping(_, _, _, _, _)
IndexLoop_stopping(notes, i, acc, now, fails) ==
    IF i > Len(notes) \/ acc.failed > 0 THEN acc
    ELSE CHOOSE out \in
            {IndexLoop_stopping(notes, i + 1, next, now, fails) :
                next \in
                   {[eng |-> r.eng,
                     indexed |-> acc.indexed + (IF r.res = "indexed" THEN 1 ELSE 0),
                     skipped |-> acc.skipped + (IF r.res = "skipped" THEN 1 ELSE 0),
                     failed |-> acc.failed + (IF r.res = "failed" THEN 1 ELSE 0),
                     outcomes |-> Append(acc.outcomes, r.res),
                     stmts |-> acc.stmts + r.stmts] :
                      r \in {index_note(acc.eng, notes[i], now, acc.stmts + 1, fails)}}} :
            TRUE

\* a loop whose arm for Ok(false) counts nothing: the variant of IndexLoop
\* that C25_EveryNoteCounted must tell apart
RECURSIVE IndexLoop_uncountedSkips(_, _, _, _, _)
IndexLoop_uncountedSkips(notes, i, acc, now, fails) ==
    IF i > Len(notes) THEN acc
    ELSE CHOOSE out \in
            {IndexLoop_uncountedSkips(notes, i + 1, next, now, fails) :
                next \in
                   {[eng |-> r.eng,
                     indexed |-> acc.indexed + (IF r.res = "indexed" THEN 1 ELSE 0),
                     skipped |-> acc.skipped,
                     failed |-> acc.failed + (IF r.res = "failed" THEN 1 ELSE 0),
                     outcomes |-> Append(acc.outcomes, r.res),
                     stmts |-> acc.stmts + r.stmts] :
                      r \in {index_note(acc.eng, notes[i], now, acc.stmts + 1, fails)}}} :
            TRUE

\* the loop of index_all over notes[i..]: acc carries the engine, the three
\* counters, the outcome of every note visited and the statements run so far
\* (the result r of index_note and the next accumulator are bound as members
\* of singleton sets, so that each is computed once)
RECURSIVE IndexLoop(_, _, _, _, _)
IndexLoop(notes, i, acc, now, fails) ==
    IF i > Len(notes) THEN acc
    ELSE CHOOSE out \in
            {IndexLoop(notes, i + 1, next, now, fails) :
                next \in
                   {[eng |-> r.eng,
                     indexed |-> acc.indexed + (IF r.res = "indexed" THEN 1 ELSE 0),
                     skipped |-> acc.skipped + (IF r.res = "skipped" THEN 1 ELSE 0),
                     failed |-> acc.failed + (IF r.res = "failed" THEN 1 ELSE 0),
                     outcomes |-> Append(acc.outcomes, r.res),
                     stmts |-> acc.stmts + r.stmts] :
                      r \in {index_note(acc.eng, notes[i], now, acc.stmts + 1, fails)}}} :
            TRUE

\* a run that undoes its writes when a note failed: the variant of index_all
\* that C8_NoRollback must tell apart
index_all_rollback(eng, notes, now, fails) ==
    LET run == IndexLoop(notes, 1,
                   [eng |-> eng, indexed |-> 0, skipped |-> 0, failed |-> 0,
                    outcomes |-> <<>>, stmts |-> 0], now, fails)
    IN [eng |-> [run.eng EXCEPT !.db = IF run.failed > 0 THEN eng.db ELSE @],
        ok |-> TRUE, err |-> "",
        stats |-> [indexed |-> run.indexed, skipped |-> run.skipped,
                   failed |-> run.failed],
        outcomes |-> run.outcomes]

\* an end of index_all that records the timestamp alone: the variant of
\* IndexAllEnd that C11_MetaRecorded must tell apart
IndexAllEnd_noCount(run, now, fails) ==
    LET m2 == set_meta(run.eng.db, "last_full_index", ToDecimal(now),
                       run.stmts + 2, fails)
        stats == [indexed |-> run.indexed, skipped |-> run.skipped, failed |-> run.failed]
    IN IF ~m2.ok THEN [eng |-> run.eng, ok |-> FALSE, err |-> "set_meta",
                       stats |-> stats, outcomes |-> run.outcomes]
       ELSE [eng |-> [run.eng EXCEPT !.db = m2.db], ok |-> TRUE, err |-> "",
             stats |-> stats, outcomes |-> run.outcomes]

\* the end of index_all, after the loop has left `run`: the two set_meta
\* calls and the value returned; ok with stats is Ok(IndexingStats), otherwise
\* err names the call whose error the `?` operator returned (outcomes and
\* stats are then what the run had reached)
IndexAllEnd(run, now, fails) ==
    LET m1 == set_meta(run.eng.db, "indexed_count", ToDecimal(run.indexed),
                       run.stmts + 1, fails)
        m2 == set_meta(m1.db, "last_full_index", ToDecimal(now), run.stmts + 2, fails)
        stats == [indexed |-> run.indexed, skipped |-> run.skipped, failed |-> run.failed]
    IN IF ~m1.ok THEN [eng |-> run.eng, ok |-> FALSE, err |-> "set_meta",
                       stats |-> stats, outcomes |-> run.outcomes]
       ELSE IF ~m2.ok THEN [eng |-> [run.eng EXCEPT !.db = m1.db], ok |-> FALSE,
                            err |-> "set_meta", stats |-> stats,
                            outcomes |-> run.outcomes]
       ELSE [eng |-> [run.eng EXCEPT !.db = m2.db], ok |-> TRUE, err |-> "",
             stats |-> stats, outcomes |-> run.outcomes]

\* SearchEngine::index_all over the notes collect_all_notes returned
index_all(eng, notes, now, fails) ==
    CHOOSE out \in
        {IndexAllEnd(run, now, fails) :
            run \in {IndexLoop(notes, 1,
                         [eng |-> eng, indexed |-> 0, skipped |-> 0, failed |-> 0,
                          outcomes |-> <<>>, stmts |-> 0], now, fails)}} :
        TRUE

\* SearchResult::from((record, score))
ToSearchResult(r) ==
    [id |-> r.note.id, path |-> r.note.path, title |-> r.note.title,
     gist |-> r.note.gist, note_type |-> r.note.note_type, area |-> r.note.area,
     score |-> r.score]

\* a search that records its query in index_meta: the variant of
\* engine_search that C20_QueriesReadOnly must tell apart
engine_search_recording(eng, query, limit, scan) ==
    LET m == ensure_model(eng)
        results == search(m.eng.db, model_embed(m.eng.model[1], query), limit, scan)
    IN [eng |-> [m.eng EXCEPT !.db.index_meta = Put(@, "last_query", query)],
        ok |-> TRUE,
        results |-> Vec([i \in 1..Len(results) |-> ToSearchResult(results[i])])]

\* SearchEngine::search
engine_search(eng, query, limit, scan) ==
    LET m == ensure_model(eng)
        results == search(m.eng.db, model_embed(m.eng.model[1], query), limit, scan)
    IN IF ~m.ok THEN [eng |-> m.eng, ok |-> FALSE, results |-> <<>>]
       ELSE [eng |-> m.eng, ok |-> TRUE,
             results |-> Vec([i \in 1..Len(results) |-> ToSearchResult(results[i])])]

\* str::split_whitespace: the pieces between whitespace, empty ones dropped
RECURSIVE SplitWhitespacePieces(_, _)
SplitWhitespacePieces(t, cur) ==
    IF t = <<>> THEN <<cur>>
    ELSE IF IsWhitespace(Head(t)) THEN <<cur>> \o SplitWhitespacePieces(Tail(t), <<>>)
    ELSE SplitWhitespacePieces(Tail(t), Append(cur, Head(t)))

split_whitespace(t) == SelectSeq(SplitWhitespacePieces(t, <<>>), LAMBDA s : s # <<>>)

\* str::contains
Contains(hay, needle) ==
    \E i \in 0..(Len(hay) - Len(needle)) : SubSeq(hay, i + 1, i + Len(needle)) = needle

\* a closure for which a note matches when no term of the query is missing
\* from its gist, a query of no terms included: the variant of LexicalHit
\* that C30_NoTermsNoResults must tell apart
LexicalHit_vacuous(note, query_lower) ==
    IF NoteGist(note) = None THEN None
    ELSE LET gist == NoteGist(note)[1]
             gist_lower == LowerText(gist)
             query_terms == split_whitespace(query_lower)
             matched_terms == Cardinality({i \in 1..Len(query_terms) :
                                             Contains(gist_lower, query_terms[i])})
         IN IF matched_terms = 0 /\ query_terms # <<>> THEN None
            ELSE Some([id |-> note.name, path |-> note.path, title |-> note.name,
                       gist |-> Some(gist),
                       note_type |-> NoteField(note, "note_type"),
                       area |-> NoteField(note, "area"),
                       score |-> IF query_terms = <<>> THEN 100
                                 ELSE FDiv(matched_terms * 100, Len(query_terms))])

\* the closure of filter_map in simple_search: None, or Some of the result
LexicalHit(note, query_lower) ==
    IF NoteGist(note) = None THEN None
    ELSE LET gist == NoteGist(note)[1]
             gist_lower == LowerText(gist)
             query_terms == split_whitespace(query_lower)
             matched_terms == Cardinality({i \in 1..Len(query_terms) :
                                             Contains(gist_lower, query_terms[i])})
         IN IF matched_terms = 0 THEN None
            ELSE Some([id |-> note.name, path |-> note.path, title |-> note.name,
                       gist |-> Some(gist),
                       note_type |-> NoteField(note, "note_type"),
                       area |-> NoteField(note, "area"),
                       score |-> FDiv(matched_terms * 100, Len(query_terms))])

RECURSIVE FilterMapHits(_, _)
FilterMapHits(notes, query_lower) ==
    IF notes = <<>> THEN <<>>
    ELSE LexicalHit(Head(notes), query_lower) \o FilterMapHits(Tail(notes), query_lower)

\* a filter that lets the notes without a matching term through: the variant
\* of simple_search that C18_LexicalSearch must tell apart
simple_search_all(notes, query, limit) ==
    LET withGist == SelectSeq(notes, LAMBDA n : NoteGist(n) # None)
        results == [i \in 1..Len(withGist) |->
                      [id |-> withGist[i].name, path |-> withGist[i].path,
                       title |-> withGist[i].name, gist |-> NoteGist(withGist[i]),
                       note_type |-> NoteField(withGist[i], "note_type"),
                       area |-> NoteField(withGist[i], "area"),
                       score |-> IF LexicalHit(withGist[i], LowerText(query)) = None
                                 THEN 0
                                 ELSE LexicalHit(withGist[i], LowerText(query))[1].score]]
    IN Truncate(SortDesc(results), limit)

\* simple_search over the notes collect_all_notes returned
simple_search(notes, query, limit) ==
    LET query_lower == LowerText(query)
        results == FilterMapHits(notes, query_lower)
    IN Truncate(SortDesc(results), limit)

(* --------------------------- the inputs drawn ------------------------- *)

NoteIds == {"a", "b"}

PathOf(dir, name) == <<dir, name>>

\* records handed to VectorDB::upsert_note directly; RecB1 claims the path of
\* RecA1 under another identifier
RecA1 == [id |-> "a", path |-> PathOf("Notes", "a"), title |-> "Test Note",
          gist |-> Some(TextA), note_type |-> Some("note"), status |-> Some("active"),
          area |-> Some("tech"), tags |-> <<"test">>, mtime |-> 1]

RecA2 == [id |-> "a", path |-> PathOf("Archive", "a"), title |-> "Renamed",
          gist |-> None, note_type |-> None, status |-> None,
          area |-> None, tags |-> <<>>, mtime |-> 2]

RecB1 == [id |-> "b", path |-> PathOf("Notes", "a"), title |-> "b",
          gist |-> Some(TextB), note_type |-> Some("log"), status |-> None,
          area |-> Some("work"), tags |-> <<"x", "y">>, mtime |-> 2]

Records == {RecA1, RecA2, RecB1}

\* vec![0.1; EMBEDDING_DIM] as in test_db_operations, and the zero vector
TenthVec == Vec([i \in 1..EMBEDDING_DIM |-> 10])

\* the first unit vector
UnitVec == Vec([i \in 1..EMBEDDING_DIM |-> IF i = 1 THEN 100 ELSE 0])

Vectors == {TenthVec, UnitVec}

QueryVectors == {TenthVec, ZeroVec}

\* the opposite of TenthVec, and a vector of one component
NegTenthVec == Vec([i \in 1..EMBEDDING_DIM |-> -10])

ShortVec == <<10>>

\* the slices handed to upsert_note and to search where their length is at
\* issue
SizedVectors == {TenthVec, NegTenthVec, ShortVec}

SizedQueries == {TenthVec, ShortVec}

FmA == [note_type |-> Some("note"), status |-> Some("active"), area |-> Some("tech"),
        gist |-> Some(TextA), tags |-> <<"x">>]

FmB == [note_type |-> Some("project"), status |-> None, area |-> None,
        gist |-> Some(TextB), tags |-> <<"x", "y">>]

FmNoGist == [note_type |-> Some("note"), status |-> None, area |-> None,
             gist |-> None, tags |-> <<>>]

FmEmptyGist == [FmNoGist EXCEPT !.gist = Some(<<>>)]

\* what Note::load yields for Notes/<name>.md
NoteOf(name, fm, modified) ==
    [name |-> name, path |-> PathOf("Notes", name), frontmatter |-> fm,
     modified |-> modified]

\* the notes a caller may hand to index_note
Notes == {NoteOf("a", fm, 2) : fm \in {None, Some(FmEmptyGist), Some(FmA)}}
         \cup {NoteOf("b", fm, 2) : fm \in {Some(FmNoGist), Some(FmB)}}

\* what collect_all_notes may return: for each name no file or one file, whose
\* frontmatter parse never yields an empty gist; sorted by name
Vaults ==
    LET formsA == {<<>>, <<Some(FmNoGist)>>, <<Some(FmA)>>}
        formsB == {<<>>, <<Some(FmNoGist)>>, <<Some(FmB)>>}
    IN {(IF fa = <<>> THEN <<>> ELSE <<NoteOf("a", fa[1], 2)>>)
        \o (IF fb = <<>> THEN <<>> ELSE <<NoteOf("b", fb[1], 2)>>) :
            fa \in formsA, fb \in formsB}

Queries == {TextA, <<>>}

\* texts handed to embed: "", " .", "GPU", "a cook" and "A, b" (two tokens
\* that cancel on the modulus 2)
Texts == {<<>>, <<32, 46>>, TextA, TextB, <<65, 44, 32, 98>>}

Limits == 0..MaxLimit

\* the readings of chrono::Utc::now().timestamp()
Times == {1}

MetaKeys == {"last_full_index", "indexed_count"}

MetaValues == {<<55>>, <<49, 50>>}

\* queries handed to simple_search: "", "GPU", "gpu cook", "u a cook", "zz"
\* and a space followed by a tab
LexQueries == {<<>>, TextA, <<103, 112, 117, 32, 99, 111, 111, 107>>,
               <<117, 32, 97, 32, 99, 111, 111, 107>>, <<122, 122>>, <<32, 9>>}

\* vectors handed to the blob codec: up to two components, among them
\* negative ones and ones of more than one byte
BlobValues == {-100, -1, 0, 10, 70000}

BlobVectors == {<<>>} \cup {<<x>> : x \in BlobValues}
               \cup {<<x, y>> : x \in BlobValues, y \in BlobValues}

\* slices handed to cosine_similarity: of length 0, 1 and EMBEDDING_DIM, zero
\* and not
CosineVectors == {<<>>, <<0>>, <<10>>, ZeroVec, TenthVec, UnitVec}

\* n copies of the code point c
Rep(c, n) == [i \in 1..n |-> c] \o <<>>

\* tokens handed to token_to_integer: "a", "abcd", "xabcd", three with a code
\* point beyond U+FFFF (U+1F600), one whose fold carries through every limb,
\* three longer than MAX_TOKEN_LENGTH and one of that length
Tokens == {<<97>>, <<97, 98, 99, 100>>, <<120, 97, 98, 99, 100>>,
           <<128512, 97, 98, 99, 100>>, <<97, 98, 128512, 100>>,
           <<120, 97, 98, 128512, 100>>, <<65535, 65535, 65535, 128512>>,
           Rep(122, MAX_TOKEN_LENGTH - 4) \o <<97, 98, 99, 100>> \o <<113>>,
           Rep(122, MAX_TOKEN_LENGTH - 4) \o <<97, 98, 99, 100>> \o <<113, 113>>,
           Rep(122, MAX_TOKEN_LENGTH) \o <<97, 98, 99, 100>>,
           Rep(122, MAX_TOKEN_LENGTH)}

\* byte strings handed to blob_to_embedding: every prefix, of 0 to 9 bytes,
\* of two strings (the first holds 10 and -100 followed by one byte)
RawBlobs ==
    {SubSeq(b, 1, n) : n \in 0..9,
                       b \in {<<10, 0, 0, 0, 156, 255, 255, 255, 7>>,
                              <<1, 2, 3, 4, 5, 6, 7, 8, 9>>}}

\* the sets of statements, among the first n of a call, that the environment fails
FailSets(n) == {S \in SUBSET (1..n) : Cardinality(S) <= MaxIoFailures}

(* ---------------------------- the operations ------------------------- *)

\* model: the engine's memoized EmbeddingModel (Option)
\* loads: the calls of EmbeddingModel::load made by the engine
\* db:    the three tables of the VectorDB
VARIABLES model, loads, db

vars == <<model, loads, db, last>>

Eng == [model |-> model, db |-> db, loads |-> loads]

SetEng(e) == model' = e.model /\ loads' = e.loads /\ db' = e.db

Init ==
    /\ model = None
    /\ loads = 0
    /\ db = EmptyDb
    /\ last = [op |-> "new"]

\* SearchEngine::new on the database file as it is
New ==
    /\ model' = None
    /\ loads' = 0
    /\ UNCHANGED db
    /\ last' = [op |-> "new"]

\* VectorDB::upsert_note called directly with one of `records`
UpsertOf(records, vectors) ==
    \E note \in records, embedding \in vectors, now \in Times, fails \in FailSets(2) :
        \E r \in {upsert_note(db, note, embedding, now, 1, fails)} :
           /\ db' = r.db
           /\ last' = [op |-> "upsert", id |-> note.id, ok |-> r.ok, note |-> note,
                       embedding |-> embedding,
                       replaced |-> /\ note.id \in Joined(db)
                                    /\ get_note(db, note.id) # Some(note)
                                    /\ db.embeddings[note.id] # embedding_to_blob(embedding)]
           /\ UNCHANGED <<model, loads>>

UpsertNote == UpsertOf(Records, Vectors)

\* another handle on the database file stores a record of its own under the
\* path of Notes/a
UpsertForeign == UpsertOf({RecB1}, {TenthVec})

\* (io tells whether the environment failed the statement)
DeleteNote ==
    \E id \in NoteIds, fails \in FailSets(1) :
        LET r == delete_note(db, id, 1, fails)
        IN /\ db' = r.db
           /\ last' = [op |-> "delete", id |-> id, ok |-> r.ok,
                       held |-> id \in DOMAIN db.notes,
                       heldEmbedding |-> id \in DOMAIN db.embeddings,
                       io |-> fails # {}]
           /\ UNCHANGED <<model, loads>>

GetNote ==
    \E id \in NoteIds :
        /\ last' = [op |-> "get", id |-> id, ok |-> TRUE, ret |-> get_note(db, id)]
        /\ UNCHANGED <<model, loads, db>>

DbSearch ==
    \E q \in QueryVectors, limit \in Limits, scan \in Orders(Joined(db)) :
        /\ last' = [op |-> "db_search", ok |-> TRUE, limit |-> limit,
                    results |-> search(db, q, limit, scan)]
        /\ UNCHANGED <<model, loads, db>>

GetStats ==
    /\ last' = [op |-> "stats", ok |-> TRUE, ret |-> get_stats(db)]
    /\ UNCHANGED <<model, loads, db>>

SetMeta ==
    \E key \in MetaKeys, value \in MetaValues, fails \in FailSets(1) :
        LET r == set_meta(db, key, value, 1, fails)
        IN /\ db' = r.db
           /\ last' = [op |-> "set_meta", id |-> key, ok |-> r.ok, value |-> value,
                       overwrote |-> get_meta(db, key) \notin {None, Some(value)}]
           /\ UNCHANGED <<model, loads>>

GetAllMtimes ==
    /\ last' = [op |-> "mtimes", ok |-> TRUE, ret |-> get_all_mtimes(db)]
    /\ UNCHANGED <<model, loads, db>>

GetMeta ==
    \E key \in MetaKeys :
        /\ last' = [op |-> "get_meta", id |-> key, ok |-> TRUE, ret |-> get_meta(db, key)]
        /\ UNCHANGED <<model, loads, db>>

Search ==
    \E query \in Queries, limit \in Limits, scan \in Orders(Joined(db)) :
        \E r \in {engine_search(Eng, query, limit, scan)} :
           /\ SetEng(r.eng)
           /\ last' = [op |-> "search", ok |-> r.ok, limit |-> limit,
                       results |-> r.results]

IndexNote ==
    \E note \in Notes, now \in Times, fails \in FailSets(2) :
        \E r \in {index_note(Eng, note, now, 1, fails)} :
           /\ SetEng(r.eng)
           /\ last' = [op |-> "index_note", id |-> note.name, ok |-> r.res # "failed",
                       res |-> r.res, hasGist |-> HasGist(note), note |-> note]

IndexAll ==
    \E notes \in Vaults, now \in Times :
        \E fails \in FailSets(2 * Len(notes) + 2) :
            \E r \in {index_all(Eng, notes, now, fails)} :
               /\ SetEng(r.eng)
               /\ last' = [op |-> "index_all", ok |-> r.ok, err |-> r.err,
                           stats |-> r.stats, outcomes |-> r.outcomes,
                           now |-> now,
                           overwrote |->
                              /\ get_meta(db, "indexed_count") # None
                              /\ get_meta(db, "indexed_count") #
                                    Some(ToDecimal(r.stats.indexed)),
                           names |-> Vec([i \in 1..Len(notes) |-> notes[i].name]),
                           hasGist |-> Vec([i \in 1..Len(notes) |-> HasGist(notes[i])])]

\* the engine at work on a database that is also written directly
Next ==
    \/ New
    \/ UpsertForeign
    \/ DeleteNote
    \/ Search
    \/ IndexNote
    \/ IndexAll

Spec == Init /\ [][Next]_vars

\* EmbeddingModel::embed called on the instance the caller holds (made by
\* load or new at first use) or on one constructed for this call; `seen`
\* keeps, for every text embedded so far, the first result and the kind of
\* instance that gave it
EmbedText ==
    \E text \in Texts, fresh \in BOOLEAN :
        \E self \in {IF fresh \/ model = None THEN NewModel ELSE model[1]} :
        \E ret \in {embed(self, text)} :
            LET seen == IF last.op = "embed" THEN last.seen ELSE << >>
            IN /\ model' = IF fresh THEN model ELSE Some(self)
               /\ last' = [op |-> "embed", text |-> text, fresh |-> fresh,
                           ret |-> ret,
                           seen |-> IF text \in DOMAIN seen THEN seen
                                    ELSE Put(seen, text, [ret |-> ret, fresh |-> fresh])]
               /\ UNCHANGED <<loads, db>>

\* embedding_to_blob and blob_to_embedding, one after the other
BlobRoundTrip ==
    \E v \in BlobVectors :
        \E blob \in {embedding_to_blob(v)} :
            /\ last' = [op |-> "blob", v |-> v, blob |-> blob,
                        back |-> blob_to_embedding(blob)]
            /\ UNCHANGED <<model, loads, db>>

\* simple_search; it is handed the vault and touches no store
SimpleSearchOf(vaults, queries) ==
    \E notes \in vaults, query \in queries, limit \in Limits :
        /\ last' = [op |-> "simple_search", notes |-> notes, query |-> query,
                    limit |-> limit, results |-> simple_search(notes, query, limit)]
        /\ UNCHANGED <<model, loads, db>>

SimpleSearch == SimpleSearchOf(Vaults, LexQueries)

\* simple_search called beside a store that holds entries: over the vault of
\* two notes with a gist, for "GPU"
SimpleSearchBeside ==
    SimpleSearchOf({<<NoteOf("a", Some(FmA), 2), NoteOf("b", Some(FmB), 2)>>}, {TextA})

CosineOf ==
    \E a \in CosineVectors, b \in CosineVectors :
        /\ last' = [op |-> "cosine", a |-> a, b |-> b, ret |-> cosine_similarity(a, b)]
        /\ UNCHANGED <<model, loads, db>>

\* token_to_integer and embed_token called on two tokens, one after the other
TokenPair ==
    \E a \in Tokens, b \in Tokens :
        /\ last' = [op |-> "token", a |-> a, b |-> b,
                    na |-> token_to_integer(a), nb |-> token_to_integer(b),
                    va |-> embed_token(NewModel, a), vb |-> embed_token(NewModel, b)]
        /\ UNCHANGED <<model, loads, db>>

\* the functions of the embedding model and of the blob codec, applied to
\* inputs drawn from bounded sets
NextFn ==
    \/ EmbedText
    \/ BlobRoundTrip
    \/ CosineOf
    \/ SimpleSearch

SpecFn == Init /\ [][NextFn]_vars

\* blob_to_embedding called on the bytes read from a row
BlobDecode ==
    \E blob \in RawBlobs :
        /\ last' = [op |-> "decode", blob |-> blob, ret |-> blob_to_embedding(blob)]
        /\ UNCHANGED <<model, loads, db>>

\* the decoders of the program applied to inputs drawn from bounded sets:
\* tokens into integers, stored bytes into vectors
NextCodec ==
    \/ TokenPair
    \/ BlobDecode

SpecCodec == Init /\ [][NextCodec]_vars

\* VectorDB::upsert_note called with a slice of any length
UpsertSized == UpsertOf(Records, SizedVectors)

\* VectorDB::search called with a slice of any length
StoreSearch ==
    \E q \in SizedQueries, limit \in Limits, scan \in Orders(Joined(db)) :
        /\ last' = [op |-> "db_search", ok |-> TRUE, limit |-> limit, query |-> q,
                    results |-> search(db, q, limit, scan)]
        /\ UNCHANGED <<model, loads, db>>

\* a store that is written and searched with slices of more than one length
NextSearch ==
    \/ UpsertSized
    \/ StoreSearch

SpecSearch == Init /\ [][NextSearch]_vars

\* the queries and updates of the store
NextDb ==
    \/ Search
    \/ UpsertNote
    \/ DeleteNote
    \/ GetNote
    \/ DbSearch
    \/ GetStats
    \/ SetMeta
    \/ GetMeta
    \/ GetAllMtimes
    \/ SimpleSearchBeside

SpecDb == Init /\ [][NextDb]_vars

(* ------------------------------ the claims ---------------------------- *)

\* C1: in every reachable state the ids of the notes table and the ids of the
\* embeddings table are the same set, and get_stats counts them alike
C1_IdsPaired ==
    /\ DOMAIN db.notes = DOMAIN db.embeddings
    /\ get_stats(db).note_count = get_stats(db).embedding_count

\* C2: a step of upsert_note, whether it returns Ok or Err, either leaves both
\* tables as they were or leaves the id with the new record and the new vector
C2_UpsertAllOrNothing ==
    [][last'.op = "upsert" =>
          \/ db'.notes = db.notes /\ db'.embeddings = db.embeddings
          \/ /\ last'.id \in Joined(db')
             /\ get_note(db', last'.id) = Some(last'.note)
             /\ blob_to_embedding(db'.embeddings[last'.id]) = last'.embedding]_vars

\* C3: after an upsert_note that returned Ok the id has one notes row, read
\* back equal to the record just given, and one embedding, decoded equal to
\* the vector just given; every search over all rows returns the id once
C3_UpsertReplaces ==
    (last.op = "upsert" /\ last.ok) =>
        /\ last.id \in Joined(db)
        /\ get_note(db, last.id) = Some(last.note)
        /\ blob_to_embedding(db.embeddings[last.id]) = last.embedding
        /\ \A scan \in Orders(Joined(db)) :
              LET r == search(db, last.embedding, Cardinality(Joined(db)), scan)
              IN \E i \in 1..Len(r) :
                    /\ r[i].note = last.note
                    /\ \A j \in 1..Len(r) : r[j].note.id = last.id => j = i

\* an Ok upsert_note over an id that held another record, another vector
C3_Witness == last.op = "upsert" /\ last.ok /\ last.replaced

\* C4: after a delete_note that returned Ok, get_note finds nothing under the
\* id, the id has no embedding, get_stats counts neither and no search
\* returns it
C4_DeleteCascades ==
    (last.op = "delete" /\ last.ok) =>
        /\ get_note(db, last.id) = None
        /\ last.id \notin DOMAIN db.embeddings
        /\ get_stats(db).note_count = Cardinality(DOMAIN db.notes \ {last.id})
        /\ get_stats(db).embedding_count = Cardinality(DOMAIN db.embeddings \ {last.id})
        /\ \A scan \in Orders(Joined(db)) :
              LET r == search(db, TenthVec, Cardinality(Joined(db)), scan)
              IN \A i \in 1..Len(r) : r[i].note.id # last.id

\* an Ok delete_note of an id that had a notes row and an embedding
C4_Witness == last.op = "delete" /\ last.ok /\ last.held /\ last.heldEmbedding

\* C5: VectorDB::search and SearchEngine::search return at most `limit`
\* results and at most as many as there are stored notes, in non-increasing
\* order of score
C5_SearchRanked ==
    (last.op \in {"db_search", "search"} /\ last.ok) =>
        /\ Len(last.results) <= last.limit
        /\ Len(last.results) <= get_stats(db).note_count
        /\ \A i \in 1..(Len(last.results) - 1) :
              last.results[i].score >= last.results[i + 1].score

\* a search cut to its limit below the stored count, its two results of
\* different scores
C5_Witness ==
    /\ last.op \in {"db_search", "search"}
    /\ last.ok
    /\ Len(last.results) = 2
    /\ last.results[1].score > last.results[2].score

\* C6: after an index_all that returned Ok no enumerated note without a
\* non-empty gist has a notes row, and each of them was counted as skipped
C6_NoGistlessStored ==
    (last.op = "index_all" /\ last.ok) =>
        \A i \in 1..Len(last.names) :
            ~last.hasGist[i] =>
                /\ last.outcomes[i] = "skipped"
                /\ last.names[i] \notin DOMAIN db.notes

\* C7: index_all attempts every enumerated note whatever failed before it,
\* counts each failed note once in `failed`, and returns Err only for an
\* error of set_meta, never for a note's own error
C7_FailureIsolated ==
    last.op = "index_all" =>
        /\ Len(last.outcomes) = Len(last.names)
        /\ last.stats.failed =
              Cardinality({i \in 1..Len(last.outcomes) : last.outcomes[i] = "failed"})
        /\ last.stats.indexed =
              Cardinality({i \in 1..Len(last.outcomes) : last.outcomes[i] = "indexed"})
        /\ ~last.ok => last.err = "set_meta"

\* an Ok run whose first note failed and whose second was indexed
C7_Witness ==
    /\ last.op = "index_all"
    /\ last.ok
    /\ Len(last.outcomes) = 2
    /\ last.outcomes[1] = "failed"
    /\ last.outcomes[2] = "indexed"
    /\ last.stats.failed = 1

\* C8: a note index_all indexed before a later note failed is still stored
\* after the run, its notes row and its embedding both
C8_NoRollback ==
    last.op = "index_all" =>
        \A i \in 1..Len(last.outcomes) :
            (/\ last.outcomes[i] = "indexed"
             /\ \E j \in (i + 1)..Len(last.outcomes) : last.outcomes[j] = "failed")
            => /\ last.names[i] \in Joined(db)
               /\ RecordOf(db, last.names[i]).gist # None

\* a run whose first note was indexed and whose second failed
C8_Witness ==
    /\ last.op = "index_all"
    /\ Len(last.outcomes) = 2
    /\ last.outcomes[1] = "indexed"
    /\ last.outcomes[2] = "failed"

C11_MetaRecorded ==
    (last.op = "index_all" /\ last.ok) =>
        /\ get_meta(db, "indexed_count") = Some(ToDecimal(last.stats.indexed))
        /\ get_meta(db, "last_full_index") = Some(ToDecimal(last.now))

\* an Ok run over a store whose "indexed_count" held another count
C11_Witness == last.op = "index_all" /\ last.ok /\ last.overwrote

C14_LengthAndZero ==
    last.op = "embed" =>
        /\ Len(last.ret) = EMBEDDING_DIM
        /\ (\A i \in 1..Len(last.text) :
               IsWhitespace(last.text[i]) \/ IsAsciiPunctuation(last.text[i]))
           => \A i \in 1..Len(last.ret) : last.ret[i] = 0

\* embed of a text that is not empty and has no token
C14_Witness ==
    /\ last.op = "embed"
    /\ last.text # <<>>
    /\ \A i \in 1..Len(last.text) : IsTokenSep(last.text[i])
    /\ last.ret = ZeroVec

\* C15: for a text with a token embed returns a vector of norm 1.0 within the
\* tolerance, for a text without one the all-zero vector; no other result
\* has norm 0
C15_UnitNorm ==
    last.op = "embed" =>
        LET normSq == SumSeq([i \in 1..Len(last.ret) |-> last.ret[i] * last.ret[i]])
            hasToken == \E i \in 1..Len(last.text) : ~IsTokenSep(last.text[i])
        IN /\ hasToken => Abs(normSq - 10000) <= NormTolerance
           /\ normSq = 0 => ~hasToken

\* embed of two tokens whose components on the modulus 2 cancel in the mean
C15_Witness ==
    /\ last.op = "embed"
    /\ Len(tokenize(last.text)) = 2
    /\ last.ret[1] = 0 /\ last.ret[2] = 0
    /\ last.ret # ZeroVec

\* C16: embedding_to_blob gives four bytes for each component, those of the
\* component's little-endian pattern, in the order of the components, and
\* blob_to_embedding gives back the vector it was given
C16_BlobRoundTrip ==
    last.op = "blob" =>
        /\ Len(last.blob) = 4 * Len(last.v)
        /\ \A i \in 1..Len(last.blob) : last.blob[i] \in 0..255
        /\ \A i \in 1..Len(last.v) :
              LET b == SubSeq(last.blob, 4 * i - 3, 4 * i)
                  top == IF b[4] >= 128 THEN b[4] - 256 ELSE b[4]
              IN b[1] + 256 * b[2] + 65536 * b[3] + 16777216 * top = last.v[i]
        /\ last.back = last.v

\* a round trip of two different components, one negative, one of more
\* than two bytes
C16_Witness ==
    /\ last.op = "blob"
    /\ Len(last.v) = 2
    /\ last.v[1] < 0
    /\ last.v[2] > 65535
    /\ last.back = last.v

\* C17: no key is set before the first set_meta; a set_meta(k, v) that
\* returns Ok leaves get_meta(k) = v and every other step leaves get_meta(k)
\* as it was, for every key k; get_meta returns the value the table holds
C17_MetaLastWriteWins ==
    /\ \A k \in MetaKeys : get_meta(db, k) = None
    /\ [][\A k \in MetaKeys :
             get_meta(db', k) =
                IF last'.op = "set_meta" /\ last'.ok /\ last'.id = k
                THEN Some(last'.value) ELSE get_meta(db, k)]_vars
    /\ [](last.op = "get_meta" =>
             last.ret = IF last.id \in DOMAIN db.index_meta
                        THEN Some(db.index_meta[last.id]) ELSE None)

\* a set_meta over another value of its key, while the other key is set
C17_Witness ==
    /\ last.op = "set_meta"
    /\ last.ok
    /\ last.overwrote
    /\ DOMAIN db.index_meta = MetaKeys

\* C19: cosine_similarity returns 0 for two slices of different lengths and
\* for a slice of norm zero, the empty slice included
C19_CosineZero ==
    last.op = "cosine" =>
        LET IsZero(x) == \A i \in 1..Len(x) : x[i] = 0
        IN (Len(last.a) # Len(last.b) \/ IsZero(last.a) \/ IsZero(last.b))
           => last.ret = 0

\* two slices of different lengths, neither of norm zero
C19_Witness ==
    /\ last.op = "cosine"
    /\ Len(last.a) # Len(last.b)
    /\ \E i \in 1..Len(last.a) : last.a[i] # 0
    /\ \E i \in 1..Len(last.b) : last.b[i] # 0
    /\ last.ret = 0

\* what C18 asks of a simple_search whose query terms are `terms`
LexicalSearchRight(terms) ==
    LET res == last.results
        notes == last.notes
        Found(n) == IF NoteGist(n) = None THEN 0
                    ELSE Cardinality({i \in 1..Len(terms) :
                            Contains(LowerText(NoteGist(n)[1]), terms[i])})
        matching == {i \in 1..Len(notes) : Found(notes[i]) > 0}
    IN /\ Len(res) = (IF Cardinality(matching) < last.limit
                      THEN Cardinality(matching) ELSE last.limit)
       /\ \A i \in 1..Len(res) :
             \E k \in matching :
                /\ res[i].id = notes[k].name
                /\ res[i].gist = NoteGist(notes[k])
                /\ NoteGist(notes[k])[1] # <<>>
                /\ res[i].score = FDiv(Found(notes[k]) * 100, Len(terms))
       /\ \A i, j \in 1..Len(res) : i # j => res[i].id # res[j].id
       /\ \A i \in 1..(Len(res) - 1) : res[i].score >= res[i + 1].score
       /\ \A k \in matching :
             (\A i \in 1..Len(res) : res[i].id # notes[k].name)
             => \A i \in 1..Len(res) :
                   res[i].score >= FDiv(Found(notes[k]) * 100, Len(terms))

\* C18 as stated: the terms are the whitespace-separated pieces of the query
\* as it was given
C18_TermsAsGiven ==
    last.op = "simple_search" => LexicalSearchRight(split_whitespace(last.query))

\* C18: simple_search returns the notes with a non-empty gist whose
\* lowercased gist contains a term of the lowercased query, each once, scored
\* (terms found) / (terms), in non-increasing order of score, the best
\* `limit` of them
C18_LexicalSearch ==
    last.op = "simple_search" =>
        LexicalSearchRight(split_whitespace(LowerText(last.query)))

\* a search cut to one result of two matching notes, the later note first
C18_Witness ==
    /\ last.op = "simple_search"
    /\ last.limit = 1
    /\ Len(last.notes) = 2
    /\ Len(last.results) = 1
    /\ last.results[1].id = last.notes[2].name
    /\ last.results[1].score < 100
    /\ LexicalHit(last.notes[1], LowerText(last.query)) # None

\* C20: a step of simple_search, SearchEngine::search, VectorDB::search,
\* get_note, get_stats, get_all_mtimes or get_meta leaves the notes, the
\* embeddings and the index metadata of the store as they were
C20_QueriesReadOnly ==
    [][last'.op \in {"simple_search", "search", "db_search", "get", "stats",
                     "mtimes", "get_meta"}
          => /\ db'.notes = db.notes
             /\ db'.embeddings = db.embeddings
             /\ db'.index_meta = db.index_meta]_vars

\* a simple_search that found a note, beside a store that holds notes,
\* embeddings and metadata
C20_Witness ==
    /\ last.op = "simple_search"
    /\ Len(last.results) > 0
    /\ Joined(db) # {}
    /\ DOMAIN db.index_meta # {}

\* one step of the fold on a number held as eight bytes, least significant
\* first: (n * 65536 + c) mod 2^64
RECURSIVE CarryUp(_, _)
CarryUp(digits, carry) ==
    IF digits = <<>> THEN <<>>
    ELSE <<(Head(digits) + carry) % 256>>
         \o CarryUp(Tail(digits), (Head(digits) + carry) \div 256)

WrappingStep(n, c) ==
    <<c % 256, (c \div 256) % 256>> \o CarryUp(SubSeq(n, 1, 6), c \div 65536)

RECURSIVE WrappingFoldFrom(_, _, _)
WrappingFoldFrom(chars, i, n) ==
    IF i > Len(chars) THEN n
    ELSE CHOOSE out \in {WrappingFoldFrom(chars, j, m) :
                            j \in {i + 1}, m \in {WrappingStep(n, chars[i])}} : TRUE

WrappingFold(chars, n) == WrappingFoldFrom(chars, 1, n)

\* the eight bytes of a u64 held in four limbs, least significant first
BytesOfU64(n) ==
    <<n[4] % 256, n[4] \div 256, n[3] % 256, n[3] \div 256,
      n[2] % 256, n[2] \div 256, n[1] % 256, n[1] \div 256>>

\* the code points token_to_integer retains
Retained(token) ==
    SubSeq(token, 1, IF Len(token) < MAX_TOKEN_LENGTH THEN Len(token) ELSE MAX_TOKEN_LENGTH)

\* C21: the integer of a token is the fold N := (N * 65536 + c) mod 2^64 from
\* 0 over its first min(length, 64) code points in order; it is a u64 for
\* every token, and the code points after the 64th do not change it
C21_WrappingFold ==
    last.op = "token" =>
        /\ \A i \in 1..4 : last.na[i] \in 0..65535
        /\ BytesOfU64(last.na) = WrappingFold(Retained(last.a), <<0, 0, 0, 0, 0, 0, 0, 0>>)
        /\ (Retained(last.a) = Retained(last.b)) => last.na = last.nb

\* two tokens longer than 64 code points that differ after the 64th, whose
\* fold overflowed
C21_Witness ==
    /\ last.op = "token"
    /\ Len(last.a) > MAX_TOKEN_LENGTH
    /\ last.a # last.b
    /\ Retained(last.a) = Retained(last.b)
    /\ last.na = last.nb
    /\ last.na # ZeroU64


\* the last four code points of a sequence of at least four
LastFour(chars) == SubSeq(chars, Len(chars) - 3, Len(chars))

\* C24: two tokens whose retained code points (the first 64 at most) end in
\* the same four code points have the same integer, that of those four code
\* points alone, and the same token vector
C24_LastFourDecide ==
    (/\ last.op = "token"
     /\ Len(Retained(last.a)) >= 4
     /\ Len(Retained(last.b)) >= 4
     /\ LastFour(Retained(last.a)) = LastFour(Retained(last.b)))
    => /\ last.na = last.nb
       /\ last.na = token_to_integer(LastFour(Retained(last.a)))
       /\ last.va = last.vb

\* two tokens of different lengths, one with a code point beyond U+FFFF
\* before its last four, that end alike and get one integer and one vector
C24_Witness ==
    /\ last.op = "token"
    /\ Len(last.a) = 4
    /\ Len(last.b) = 5
    /\ last.b[1] > 65535
    /\ LastFour(last.a) = LastFour(last.b)
    /\ last.na = last.nb
    /\ last.va = last.vb


\* C23: blob_to_embedding of a byte string whose length is no multiple of 4
\* returns a vector, of floor(length / 4) components, the i-th decoded from
\* the i-th complete group of four bytes; the 1 to 3 bytes after the last
\* complete group change nothing
C23_PartialGroupDropped ==
    (last.op = "decode" /\ Len(last.blob) % 4 # 0) =>
        /\ Len(last.ret) = Len(last.blob) \div 4
        /\ \A i \in 1..Len(last.ret) :
              LET b == SubSeq(last.blob, 4 * i - 3, 4 * i)
                  top == IF b[4] >= 128 THEN b[4] - 256 ELSE b[4]
              IN last.ret[i] = b[1] + 256 * b[2] + 65536 * b[3] + 16777216 * top
        /\ last.ret = blob_to_embedding(SubSeq(last.blob, 1, 4 * (Len(last.blob) \div 4)))

\* nine bytes decoded into the two components of the first eight
C23_Witness ==
    /\ last.op = "decode"
    /\ Len(last.blob) = 9
    /\ last.ret = <<10, -100>>


\* C30: simple_search returns the empty list for a query that is empty or
\* all whitespace, whatever the notes and the limit, and for the limit 0,
\* whatever the notes and the query
C30_NoTermsNoResults ==
    last.op = "simple_search" =>
        /\ (\A i \in 1..Len(last.query) : IsWhitespace(last.query[i]))
              => last.results = <<>>
        /\ last.limit = 0 => last.results = <<>>

\* a query of a space and a tab over two notes with a gist, the limit 2
C30_Witness ==
    /\ last.op = "simple_search"
    /\ last.query # <<>>
    /\ \A i \in 1..Len(last.query) : IsWhitespace(last.query[i])
    /\ last.limit = 2
    /\ Len(last.notes) = 2
    /\ \A i \in 1..2 : HasGist(last.notes[i])
    /\ last.results = <<>>


\* the score VectorDB::search owes the stored entry `id` for the query of
\* the last search
ScoreOwed(id) == cosine_similarity(last.query, blob_to_embedding(db.embeddings[id]))

\* the ids the last search returned
Returned == {last.results[i].note.id : i \in 1..Len(last.results)}

\* C22: over n stored entries (a notes row with its embedding) a search
\* with limit k returns min(k, n) results, each a different stored entry
\* with its own score, and no entry left out has a score greater than that
\* of a returned one
C22_ExhaustiveTopK ==
    (last.op = "db_search" /\ "query" \in DOMAIN last) =>
        LET n == Cardinality(Joined(db))
        IN /\ Len(last.results) = (IF last.limit < n THEN last.limit ELSE n)
           /\ Cardinality(Returned) = Len(last.results)
           /\ \A i \in 1..Len(last.results) :
                 /\ last.results[i].note.id \in Joined(db)
                 /\ last.results[i].note = RecordOf(db, last.results[i].note.id)
                 /\ last.results[i].score = ScoreOwed(last.results[i].note.id)
           /\ \A id \in Joined(db) \ Returned :
                 \A i \in 1..Len(last.results) : ScoreOwed(id) <= last.results[i].score

\* a search cut to one result of two entries, the entry left out of a
\* lower score
C22_Witness ==
    /\ last.op = "db_search"
    /\ "query" \in DOMAIN last
    /\ last.limit = 1
    /\ Len(last.results) = 1
    /\ \E id \in Joined(db) \ Returned : ScoreOwed(id) < last.results[1].score


\* the stored entries whose decoded vector is not of the length of the
\* query of the last search
Mismatched ==
    {id \in Joined(db) : Len(blob_to_embedding(db.embeddings[id])) # Len(last.query)}

\* C29: a search over a store that holds vectors of another length than the
\* query returns Ok; such an entry is a candidate with score 0: it is among
\* the results with that score unless `limit` entries of score 0 or more
\* are, and it stands before every result of a negative score
C29_MismatchScoresZero ==
    (last.op = "db_search" /\ "query" \in DOMAIN last) =>
        /\ last.ok
        /\ \A id \in Mismatched :
              \/ \E i \in 1..Len(last.results) :
                    /\ last.results[i].note.id = id
                    /\ last.results[i].score = 0
                    /\ \A j \in 1..Len(last.results) :
                          last.results[j].score < 0 => i < j
              \/ /\ Len(last.results) = last.limit
                 /\ \A i \in 1..Len(last.results) : last.results[i].score >= 0

\* a search that returned an entry of another length, with score 0, before
\* an entry of the query's length and a negative score
C29_Witness ==
    /\ last.op = "db_search"
    /\ "query" \in DOMAIN last
    /\ Len(last.results) = 2
    /\ last.results[1].note.id \in Mismatched
    /\ last.results[1].score = 0
    /\ last.results[2].note.id \notin Mismatched
    /\ last.results[2].score < 0


\* C25: the three counts of an index_all run add up to the number of notes
\* enumerated, each count being the number of notes of its outcome; a run
\* over two notes with a gist in which no note failed counts indexed = 2,
\* skipped = 0, failed = 0
C25_EveryNoteCounted ==
    last.op = "index_all" =>
        /\ last.stats.indexed + last.stats.skipped + last.stats.failed = Len(last.names)
        /\ \A i \in 1..Len(last.names) :
              last.outcomes[i] \in {"indexed", "skipped", "failed"}
        /\ last.stats.skipped =
              Cardinality({i \in 1..Len(last.outcomes) : last.outcomes[i] = "skipped"})
        /\ (/\ Len(last.names) = 2
            /\ \A i \in 1..2 : last.hasGist[i]
            /\ \A i \in 1..2 : last.outcomes[i] # "failed")
           => last.stats = [indexed |-> 2, skipped |-> 0, failed |-> 0]

\* an Ok run over two notes, one skipped and one failed
C25_Witness ==
    /\ last.op = "index_all"
    /\ last.ok
    /\ Len(last.names) = 2
    /\ last.stats = [indexed |-> 0, skipped |-> 1, failed |-> 1]


\* C26: a step of index_note or index_all, whatever it returns, leaves every
\* id that had a notes row with its notes row and every id that had an
\* embedding with its embedding, also the ids whose note is no longer
\* enumerated or no longer has a gist
C26_IndexingKeepsEntries ==
    [][last'.op \in {"index_note", "index_all"} =>
          /\ DOMAIN db.notes \subseteq DOMAIN db'.notes
          /\ DOMAIN db.embeddings \subseteq DOMAIN db'.embeddings]_vars

\* after an index_all that enumerated only the note "b", without a gist,
\* the entries of "a" and of "b" are both stored
C26_Witness ==
    /\ last.op = "index_all"
    /\ last.ok
    /\ last.names = <<"b">>
    /\ ~last.hasGist[1]
    /\ Joined(db) = {"a", "b"}


\* C27: no two notes rows hold the same path; an upsert_note of a record
\* whose path is held by the row of another id returns Err and leaves the
\* three tables as they were; index_all counts as failed a note with a gist
\* whose path is held by the row of an id that the run did not visit before
C27_PathsUnique ==
    /\ [](\A i, j \in DOMAIN db.notes : db.notes[i].path = db.notes[j].path => i = j)
    /\ [][(last'.op = "upsert" /\ PathTaken(db, last'.id, last'.note.path))
             => (~last'.ok /\ db' = db)]_vars
    /\ [][last'.op = "index_all" =>
             \A i \in 1..Len(last'.names) :
                (/\ last'.hasGist[i]
                 /\ \E other \in DOMAIN db.notes :
                       /\ other # last'.names[i]
                       /\ db.notes[other].path = PathOf("Notes", last'.names[i])
                       /\ \A j \in 1..(i - 1) : last'.names[j] # other)
                => /\ last'.outcomes[i] = "failed"
                   /\ last'.stats.failed >= 1]_vars

\* after an Ok index_all that failed on the note "a", the row of "b" holds
\* the path of that note and "a" has no row
C27_Witness ==
    /\ last.op = "index_all"
    /\ last.ok
    /\ last.names = <<"a">>
    /\ last.hasGist[1]
    /\ last.outcomes = <<"failed">>
    /\ DOMAIN db.notes = {"b"}
    /\ db.notes["b"].path = PathOf("Notes", "a")


\* the row of `id` in a table: None, or Some of what the table holds
RowOf(table, id) == IF id \in DOMAIN table THEN Some(table[id]) ELSE None

\* C28: a step of upsert_note or delete_note on an id that returns Ok
\* leaves the notes row and the embedding of every other id, and the
\* index metadata, as they were; a delete_note of an id without a notes row
\* returns Ok, unless the environment fails its statement, and changes
\* no table
C28_OnlyOwnEntry ==
    /\ [][(last'.op \in {"upsert", "delete"} /\ last'.ok) =>
             /\ \A id \in (DOMAIN db.notes \cup DOMAIN db'.notes
                            \cup DOMAIN db.embeddings \cup DOMAIN db'.embeddings)
                           \ {last'.id} :
                   /\ RowOf(db'.notes, id) = RowOf(db.notes, id)
                   /\ RowOf(db'.embeddings, id) = RowOf(db.embeddings, id)
             /\ db'.index_meta = db.index_meta]_vars
    /\ [][(last'.op = "delete" /\ last'.id \notin DOMAIN db.notes) =>
             /\ ~last'.io => last'.ok
             /\ db' = db]_vars

\* an Ok delete_note of a stored "a" beside a stored "b" and set metadata
C28_Witness ==
    /\ last.op = "delete"
    /\ last.ok
    /\ last.id = "a"
    /\ last.held
    /\ "b" \in Joined(db)
    /\ DOMAIN db.index_meta # {}

====
